---- MODULE Spec2Model ----
(***************************************************************************)
(* GameTree (game_tree.py), the tree players (part1.py, part2.py,          *)
(* part3.py), the complete-tree builder (part2.py) and the learning loop   *)
(* (part3.py) of the Minichess AI.                                         *)
(*                                                                         *)
(* A GameTree is a record [move, is_white_move, white_win_probability,     *)
(* subtrees], subtrees being the sequence of child records in list order.  *)
(* A reference to a node of the shared tree (a player's _game_tree) is the *)
(* sequence of child indices leading to it from the root; lists are only   *)
(* ever appended to, so such a reference stays valid.                      *)
(*                                                                         *)
(* white_win_probability is a Python float; it is modelled as an exact     *)
(* fraction <<numerator, denominator>> in lowest terms, so that max, sum   *)
(* and division are computed and compared exactly.                         *)
(***************************************************************************)
EXTENDS Integers, Sequences, FiniteSets, TLC

VARIABLES
    game_tre,        \* the shared GameTree (part3.py:113, part1.py:86)
    inserted,        \* history: the move paths passed to insert_move_sequence
    last_insert,     \* history: the latest insert_move_sequence call and the tree before it
    pc,              \* "idle" between games, "playing" inside run_game
    game,            \* the live MinichessGame of the game being played
    move_sequence,   \* the moves made in the game being played
    runner,          \* which program runs the game being played, "none" between games
    tree_white,      \* TRUE when the tree player plays White
    exploration_probability,  \* ExploringPlayer._exploration_probability, in 1/ProbScale
    player_game_tree,         \* the tree player's _game_tree
    n_inserts,       \* number of direct insert_move_sequence calls so far
    n_games,         \* number of games of the learning loop started so far
    gen_args,        \* the arguments of a generate_complete_game_tree call
    gen_tree,        \* <<>> before that call returns, <<the tree returned>> after
    rec,             \* an insert_move_sequence call in progress: the rec_helper frames
    last_add         \* history: the latest add_subtree call and the tree before it

vars == <<game_tre, inserted, last_insert, pc, game, move_sequence, runner,
          tree_white, exploration_probability, player_game_tree,
          n_inserts, n_games, gen_args, gen_tree, rec, last_add>>

----------------------------------------------------------------------------
(* Bounds of the model                                                     *)

MaxInserts == 3
MaxGames == 3
ProbScale == 2
MaxDepth == 4
MaxCalls == 2
MaxAdds == 3

----------------------------------------------------------------------------
(* Exact fractions standing for the floats                                 *)

RECURSIVE Gcd(_, _)
Gcd(a, b) == IF b = 0 THEN a ELSE Gcd(b, a % b)

Frac(n, d) == LET g == Gcd(n, d) IN IF g = 0 THEN <<0, 1>> ELSE <<n \div g, d \div g>>

Zero == Frac(0, 1)
One == Frac(1, 1)

FLess(a, b) == a[1] * b[2] < b[1] * a[2]
FAdd(a, b) == Frac(a[1] * b[2] + b[1] * a[2], a[2] * b[2])
FDivInt(a, k) == Frac(a[1], a[2] * k)

----------------------------------------------------------------------------
(* game_tree.py                                                            *)

GAME_START_MOVE == "*"

GameTree(move, is_white_move, white_win_probability) ==
    [move |-> move, is_white_move |-> is_white_move,
     white_win_probability |-> white_win_probability, subtrees |-> <<>>]

get_subtrees(self) == self.subtrees

\* A find_subtree_by_move whose loop returns None as soon as the first subtree
\* does not match.
find_subtree_first_only(self, move) ==
    IF self.subtrees # <<>> /\ self.subtrees[1].move = move THEN 1 ELSE 0

\* The index in self.subtrees of the first subtree with this move; 0 is None.
find_subtree_by_move(self, move) ==
    IF \E i \in 1..Len(self.subtrees) : self.subtrees[i].move = move
    THEN CHOOSE i \in 1..Len(self.subtrees) :
            /\ self.subtrees[i].move = move
            /\ \A j \in 1..(i - 1) : self.subtrees[j].move # move
    ELSE 0

\* max(tree.white_win_probability for tree in self._subtrees), left to right
RECURSIVE MaxProb(_, _)
MaxProb(subtrees, i) ==
    IF i = 1 THEN subtrees[1].white_win_probability
    ELSE LET m == MaxProb(subtrees, i - 1)
             v == subtrees[i].white_win_probability
         IN IF FLess(m, v) THEN v ELSE m

\* sum_probs after the first i iterations of the for loop
RECURSIVE SumProbs(_, _)
SumProbs(subtrees, i) ==
    IF i = 0 THEN Zero
    ELSE FAdd(SumProbs(subtrees, i - 1), subtrees[i].white_win_probability)

MeanProb(subtrees) == FDivInt(SumProbs(subtrees, Len(subtrees)), Len(subtrees))

update_white_win_probability(self) ==
    IF self.subtrees = <<>> THEN self
    ELSE IF self.is_white_move
         THEN [self EXCEPT !.white_win_probability = MaxProb(self.subtrees, Len(self.subtrees))]
         ELSE [self EXCEPT !.white_win_probability = MeanProb(self.subtrees)]

\* An add_subtree that leaves the node as it is when one of its subtrees
\* already has the move of the added one.
add_subtree_checked(self, subtree) ==
    IF find_subtree_by_move(self, subtree.move) # 0 THEN self
    ELSE update_white_win_probability([self EXCEPT !.subtrees = Append(@, subtree)])

add_subtree(self, subtree) ==
    update_white_win_probability([self EXCEPT !.subtrees = Append(@, subtree)])

Reverse(s) == [i \in 1..Len(s) |-> s[Len(s) + 1 - i]]

\* A rec_helper that does not recompute the node when the move was found.
RECURSIVE rec_helper_stale(_, _, _)
rec_helper_stale(self, moves_copy, win_probability) ==
    IF moves_copy = <<>> THEN self
    ELSE LET next == moves_copy[Len(moves_copy)]
             popped == SubSeq(moves_copy, 1, Len(moves_copy) - 1)
             move_tree == find_subtree_by_move(self, next)
         IN IF move_tree = 0
            THEN LET new_subtree == GameTree(next, ~self.is_white_move, win_probability)
                 IN update_white_win_probability(
                        [self EXCEPT !.subtrees =
                            Append(@, rec_helper_stale(new_subtree, popped, win_probability))])
            ELSE [self EXCEPT !.subtrees[move_tree] =
                            rec_helper_stale(@, popped, win_probability)]

\* A rec_helper that does not go on with the rest of the moves below a subtree
\* it has just created.
RECURSIVE rec_helper_short(_, _, _)
rec_helper_short(self, moves_copy, win_probability) ==
    IF moves_copy = <<>> THEN self
    ELSE LET next == moves_copy[Len(moves_copy)]
             popped == SubSeq(moves_copy, 1, Len(moves_copy) - 1)
             move_tree == find_subtree_by_move(self, next)
         IN IF move_tree = 0
            THEN LET new_subtree == GameTree(next, ~self.is_white_move, win_probability)
                 IN update_white_win_probability(
                        [self EXCEPT !.subtrees = Append(@, new_subtree)])
            ELSE update_white_win_probability(
                        [self EXCEPT !.subtrees[move_tree] =
                            rec_helper_short(@, popped, win_probability)])

\* A rec_helper that stores win_probability in the node the moves end at.
RECURSIVE rec_helper_overwrite(_, _, _)
rec_helper_overwrite(self, moves_copy, win_probability) ==
    IF moves_copy = <<>>
    THEN [self EXCEPT !.white_win_probability =
              IF self.subtrees = <<>> THEN win_probability ELSE @]
    ELSE LET next == moves_copy[Len(moves_copy)]
             popped == SubSeq(moves_copy, 1, Len(moves_copy) - 1)
             move_tree == find_subtree_by_move(self, next)
         IN IF move_tree = 0
            THEN LET new_subtree == GameTree(next, ~self.is_white_move, win_probability)
                 IN update_white_win_probability(
                        [self EXCEPT !.subtrees =
                            Append(@, rec_helper_overwrite(new_subtree, popped, win_probability))])
            ELSE update_white_win_probability(
                        [self EXCEPT !.subtrees[move_tree] =
                            rec_helper_overwrite(@, popped, win_probability)])

\* moves_copy is the reversed move list: its last element is the next move.
RECURSIVE rec_helper(_, _, _)
rec_helper(self, moves_copy, win_probability) ==
    IF moves_copy = <<>> THEN self
    ELSE LET next == moves_copy[Len(moves_copy)]
             popped == SubSeq(moves_copy, 1, Len(moves_copy) - 1)
             move_tree == find_subtree_by_move(self, next)
         IN IF move_tree = 0
            THEN LET new_subtree == GameTree(next, ~self.is_white_move, win_probability)
                 IN update_white_win_probability(
                        [self EXCEPT !.subtrees =
                            Append(@, rec_helper(new_subtree, popped, win_probability))])
            ELSE update_white_win_probability(
                        [self EXCEPT !.subtrees[move_tree] =
                            rec_helper(@, popped, win_probability)])

\* An insert_move_sequence that does not reverse the copy.
insert_move_sequence_unreversed(self, moves, win_probability) ==
    rec_helper(self, moves, win_probability)

insert_move_sequence(self, moves, win_probability) ==
    rec_helper(self, Reverse(moves), win_probability)

\* The node of tree reached by following the child indices in at.
RECURSIVE NodeAt(_, _)
NodeAt(tree, at) ==
    IF at = <<>> THEN tree ELSE NodeAt(tree.subtrees[Head(at)], Tail(at))

----------------------------------------------------------------------------
(* The rules engine (module minichess, not part of the tree code): a       *)
(* stand-in with the interface the tree code uses.  Two players alternate; *)
(* a move either takes one stone ("t") or passes ("p"); whoever takes the  *)
(* last stone wins; after MAX_MOVES moves the game is a draw.  A finished  *)
(* game with stones left still lists its moves, one with none lists none.  *)

START_STONES == 2
MAX_MOVES == 3

MinichessGame == [stones |-> START_STONES, white_active |-> TRUE, move_count |-> 0]

is_white_move(g) == g.white_active

get_valid_moves(g) == IF g.stones = 0 THEN <<>> ELSE <<"p", "t">>

get_winner(g) ==
    IF g.stones = 0 THEN (IF g.white_active THEN "Black" ELSE "White")
    ELSE IF g.move_count >= MAX_MOVES THEN "Draw"
    ELSE "None"

copy_and_make_move(g, move) ==
    [stones |-> IF move = "t" THEN g.stones - 1 ELSE g.stones,
     white_active |-> ~g.white_active,
     move_count |-> g.move_count + 1]

Range(s) == {s[i] : i \in 1..Len(s)}

\* What random.choice(seq) can return.
random_choice(s) == Range(s)

\* minichess.RandomPlayer.make_move
RandomPlayer_make_move(g) == random_choice(get_valid_moves(g))

\* The game state after playing moves from the start; moves must be legal.
RECURSIVE Replay(_, _)
Replay(g, moves) ==
    IF moves = <<>> THEN g ELSE Replay(copy_and_make_move(g, Head(moves)), Tail(moves))

\* A sequence of moves that run_game can produce a prefix of: every move is
\* valid where it is made and is made while the game has no winner.
RECURSIVE IsLegal(_, _)
IsLegal(g, moves) ==
    \/ moves = <<>>
    \/ /\ get_winner(g) = "None"
       /\ Head(moves) \in Range(get_valid_moves(g))
       /\ IsLegal(copy_and_make_move(g, Head(moves)), Tail(moves))

MoveLabels == {"p", "t"}

SeqsUpTo(n) == UNION {[1..k -> MoveLabels] : k \in 0..n}

LegalPaths == {ms \in SeqsUpTo(MAX_MOVES) : IsLegal(MinichessGame, ms)}

----------------------------------------------------------------------------
(* The tree players.  A player's _game_tree is None or a reference into    *)
(* the shared tree.  make_move is modelled by the set of its possible      *)
(* results: the move returned, the player's _game_tree afterwards, the     *)
(* shared tree afterwards, and the branch of the code that produced it.    *)

NoTree == [present |-> FALSE, at |-> <<>>]
Ref(at) == [present |-> TRUE, at |-> at]

Result(move, held, tree, branch) ==
    [move |-> move, game_tree |-> held, tree |-> tree, branch |-> branch]

\* part1.py:63-64, part2.py:88-89, part3.py:34-35
Descend(tree, held, previous_move) ==
    IF previous_move # "None" /\ held.present
    THEN LET i == find_subtree_by_move(NodeAt(tree, held.at), previous_move)
         IN IF i = 0 THEN NoTree ELSE Ref(Append(held.at, i))
    ELSE held

OffTree(tree, held) ==
    \/ ~held.present
    \/ get_subtrees(NodeAt(tree, held.at)) = <<>>

\* next_move = random.choice(game.get_valid_moves()); self._game_tree = None
RandomMove(tree, g) ==
    {Result(m, NoTree, tree, "random") : m \in random_choice(get_valid_moves(g))}

\* next_subtree = random.choice(self._game_tree.get_subtrees())
RandomSubtree(tree, held, branch) ==
    LET subtrees == get_subtrees(NodeAt(tree, held.at))
    IN {Result(subtrees[i].move, Ref(Append(held.at, i)), tree, branch) :
            i \in 1..Len(subtrees)}

\* A make_move whose fallback does not set self._game_tree to None.
RandomTreePlayer_make_move_keep(tree, held0, g, previous_move) ==
    LET held == Descend(tree, held0, previous_move)
    IN IF OffTree(tree, held)
       THEN {Result(m, held, tree, "random") : m \in random_choice(get_valid_moves(g))}
       ELSE RandomSubtree(tree, held, "subtree")

RandomTreePlayer_make_move(tree, held0, g, previous_move) ==
    LET held == Descend(tree, held0, previous_move)
    IN IF OffTree(tree, held) THEN RandomMove(tree, g)
       ELSE RandomSubtree(tree, held, "subtree")

\* A scan that also replaces highest_prob on an equal value (>= for >).
RECURSIVE ScanHighest_ge(_, _)
ScanHighest_ge(subtrees, i) ==
    IF i = 0 THEN <<Zero, 0>>
    ELSE LET acc == ScanHighest_ge(subtrees, i - 1)
         IN IF ~FLess(subtrees[i].white_win_probability, acc[1])
            THEN <<subtrees[i].white_win_probability, i>>
            ELSE acc

\* part2.py:97-100: <<prob, highest_prob>> after the first i subtrees of the
\* scan, highest_prob being a subtree index, 0 for None.
RECURSIVE ScanHighest(_, _)
ScanHighest(subtrees, i) ==
    IF i = 0 THEN <<Zero, 0>>
    ELSE LET acc == ScanHighest(subtrees, i - 1)
         IN IF FLess(acc[1], subtrees[i].white_win_probability)
            THEN <<subtrees[i].white_win_probability, i>>
            ELSE acc

\* part2.py:109-112: <<prob1, lowest_prob>> after the first i subtrees.
RECURSIVE ScanLowest(_, _)
ScanLowest(subtrees, i) ==
    IF i = 0 THEN <<One, 0>>
    ELSE LET acc == ScanLowest(subtrees, i - 1)
         IN IF FLess(subtrees[i].white_win_probability, acc[1])
            THEN <<subtrees[i].white_win_probability, i>>
            ELSE acc

\* part2.py:96-119, the branch taken when the player is on the tree
GreedyChoice(tree, held, g) ==
    LET subtrees == get_subtrees(NodeAt(tree, held.at))
        found == IF is_white_move(g)
                 THEN ScanHighest(subtrees, Len(subtrees))[2]
                 ELSE ScanLowest(subtrees, Len(subtrees))[2]
    IN IF found # 0
       THEN {Result(subtrees[found].move, Ref(Append(held.at, found)), tree, "greedy")}
       ELSE RandomSubtree(tree, held, "greedy_random")

GreedyTreePlayer_make_move(tree, held0, g, previous_move) ==
    LET held == Descend(tree, held0, previous_move)
    IN IF OffTree(tree, held) THEN RandomMove(tree, g)
       ELSE GreedyChoice(tree, held, g)

\* A helper_function that adds the move it explored to the tree.
helper_function_grow(tree, held, g) ==
    LET subtrees == get_subtrees(NodeAt(tree, held.at))
    IN {IF next_move \notin {subtrees[i].move : i \in 1..Len(subtrees)}
        THEN Result(next_move, NoTree,
                    insert_move_sequence(tree, <<next_move>>, Zero), "explore")
        ELSE LET next_subtree == find_subtree_by_move(NodeAt(tree, held.at), next_move)
             IN Result(subtrees[next_subtree].move, Ref(Append(held.at, next_subtree)),
                       tree, "explore")
        : next_move \in random_choice(get_valid_moves(g))}

\* part3.py:48-60
helper_function(tree, held, g) ==
    LET subtrees == get_subtrees(NodeAt(tree, held.at))
    IN {IF next_move \notin {subtrees[i].move : i \in 1..Len(subtrees)}
        THEN Result(next_move, NoTree, tree, "explore")
        ELSE LET next_subtree == find_subtree_by_move(NodeAt(tree, held.at), next_move)
             IN Result(subtrees[next_subtree].move, Ref(Append(held.at, next_subtree)),
                       tree, "explore")
        : next_move \in random_choice(get_valid_moves(g))}

\* part3.py:66-69 and 72-74: the scan of helper_function2 on White's move
RECURSIVE ScanHighest2(_, _)
ScanHighest2(subtrees, i) ==
    IF i = 0 THEN <<Zero, 0>>
    ELSE LET acc == ScanHighest2(subtrees, i - 1)
         IN IF FLess(acc[1], subtrees[i].white_win_probability)
            THEN <<subtrees[i].white_win_probability, i>>
            ELSE acc

\* part3.py:83-86: the scan of helper_function2 on Black's move
RECURSIVE ScanLowest2(_, _)
ScanLowest2(subtrees, i) ==
    IF i = 0 THEN <<One, 0>>
    ELSE LET acc == ScanLowest2(subtrees, i - 1)
         IN IF FLess(subtrees[i].white_win_probability, acc[1])
            THEN <<subtrees[i].white_win_probability, i>>
            ELSE acc

\* part3.py:62-93
helper_function2(tree, held, g) ==
    LET subtrees == get_subtrees(NodeAt(tree, held.at))
        found == IF is_white_move(g)
                 THEN ScanHighest2(subtrees, Len(subtrees))[2]
                 ELSE ScanLowest2(subtrees, Len(subtrees))[2]
    IN IF found # 0
       THEN {Result(subtrees[found].move, Ref(Append(held.at, found)), tree, "greedy")}
       ELSE RandomSubtree(tree, held, "greedy_random")

\* number = random.uniform(0.0, 1.0), which is 0.0 + 1.0 * random() with
\* random() in [0.0, 1.0): the values k / ProbScale below 1.
UniformDraws == 0..(ProbScale - 1)

\* The exploration probabilities k / ProbScale in [0, 1].
ExplorationProbabilities == 0..ProbScale

\* A make_move that explores when number <= p.
ExploringPlayer_make_move_le(tree, held0, g, previous_move, p) ==
    LET held == Descend(tree, held0, previous_move)
    IN IF OffTree(tree, held) THEN RandomMove(tree, g)
       ELSE UNION {IF number <= p THEN helper_function(tree, held, g)
                                  ELSE helper_function2(tree, held, g)
                   : number \in UniformDraws}

ExploringPlayer_make_move(tree, held0, g, previous_move, p) ==
    LET held == Descend(tree, held0, previous_move)
    IN IF OffTree(tree, held) THEN RandomMove(tree, g)
       ELSE UNION {IF number < p THEN helper_function(tree, held, g)
                                 ELSE helper_function2(tree, held, g)
                   : number \in UniformDraws}

----------------------------------------------------------------------------
(* part2.py: generate_complete_game_tree                                   *)

\* A generate_complete_game_tree that stops one level early (d <= 1 for d == 0).
RECURSIVE generate_early(_, _, _)
generate_early(root_move, game_state, d) ==
    LET tree == IF get_winner(game_state) = "White"
                THEN GameTree(root_move, is_white_move(game_state), One)
                ELSE GameTree(root_move, is_white_move(game_state), Zero)
        moves == get_valid_moves(game_state)
        subtrees == [i \in 1..Len(moves) |->
                        generate_early(moves[i], copy_and_make_move(game_state, moves[i]),
                                       d - 1)]
    IN IF d <= 1 THEN tree
       ELSE update_white_win_probability([tree EXCEPT !.subtrees = subtrees])

RECURSIVE generate_complete_game_tree(_, _, _)
RECURSIVE GenerateSubtrees(_, _, _, _)

\* part2.py:37-39 and 51-53: tree after the first i valid moves were added
GenerateSubtrees(tree, game_state, d, i) ==
    IF i = 0 THEN tree
    ELSE LET move == get_valid_moves(game_state)[i]
             new_tree == copy_and_make_move(game_state, move)
         IN add_subtree(GenerateSubtrees(tree, game_state, d, i - 1),
                        generate_complete_game_tree(move, new_tree, d - 1))

generate_complete_game_tree(root_move, game_state, d) ==
    LET tree == IF get_winner(game_state) = "White"
                THEN GameTree(root_move, is_white_move(game_state), One)
                ELSE GameTree(root_move, is_white_move(game_state), Zero)
    IN IF d = 0 THEN tree
       ELSE GenerateSubtrees(tree, game_state, d, Len(get_valid_moves(game_state)))

----------------------------------------------------------------------------
(* The programs: a client of the tree inserting move sequences             *)
(* (load_game_tree, part1.py:12-21), run_game driven by part1_runner,      *)
(* part2_runner and run_learning_algorithm.                                *)

previous_move == IF move_sequence = <<>> THEN "None" ELSE move_sequence[Len(move_sequence)]

Outcomes == {Frac(k, ProbScale) : k \in 0..ProbScale}

NoInsert == [moves |-> <<>>, win_probability |-> Zero, before |-> <<>>, by |-> "none"]

\* The call made on the position reached by moves: the root move is the move
\* that led to it (part2.py:39, 53), or GAME_START_MOVE (part2.py:135).
GenArgs(moves, d) ==
    [root_move |-> IF moves = <<>> THEN GAME_START_MOVE ELSE moves[Len(moves)],
     game_state |-> Replay(MinichessGame, moves), d |-> d]

\* No insert_move_sequence call has been made step by step.
NoCall == [stack |-> <<>>, moves_copy |-> <<>>, win_probability |-> Zero,
           moves |-> <<>>, before |-> <<>>, updates |-> <<>>]

\* No add_subtree call has been made.
NoAdd == [at |-> <<>>, subtree |-> <<>>, before |-> <<>>]

GameVarsInit ==
    /\ game = MinichessGame
    /\ move_sequence = <<>>
    /\ runner = "none"
    /\ tree_white = TRUE
    /\ exploration_probability = 0
    /\ player_game_tree = NoTree

Init ==
    /\ game_tre = GameTree(GAME_START_MOVE, TRUE, Zero)
    /\ inserted = {}
    /\ last_insert = NoInsert
    /\ pc = "idle"
    /\ GameVarsInit
    /\ n_inserts = 0
    /\ n_games = 0
    /\ gen_args = GenArgs(<<>>, 0)
    /\ gen_tree = <<>>
    /\ rec = NoCall
    /\ last_add = NoAdd

genVars == <<gen_args, gen_tree>>
callVars == <<rec, last_add>>
gameVars == <<game, move_sequence, runner, tree_white, exploration_probability,
              player_game_tree>>
treeVars == <<game_tre, inserted, last_insert>>

\* tree.insert_move_sequence(moves, win_probability) by a client of the tree
Insert(moves, win_probability) ==
    /\ pc = "idle"
    /\ n_inserts < MaxInserts
    /\ game_tre' = insert_move_sequence(game_tre, moves, win_probability)
    /\ inserted' = inserted \cup {moves}
    /\ last_insert' = [moves |-> moves, win_probability |-> win_probability,
                       before |-> <<game_tre>>, by |-> "client"]
    /\ n_inserts' = n_inserts + 1
    /\ UNCHANGED <<pc, gameVars, n_games, genVars, callVars>>

\* A runner creates its tree player on the shared tree and run_game starts.
\* Only the games of the learning loop are counted (i of part3.py:119).
StartGame(r, white, p) ==
    /\ pc = "idle"
    /\ r = "run_learning_algorithm" => n_games < MaxGames
    /\ pc' = "playing"
    /\ game' = MinichessGame
    /\ move_sequence' = <<>>
    /\ runner' = r
    /\ tree_white' = white
    /\ exploration_probability' = p
    /\ player_game_tree' = Ref(<<>>)
    /\ n_games' = IF r = "run_learning_algorithm" THEN n_games + 1 ELSE n_games
    /\ UNCHANGED <<treeVars, n_inserts, genVars, callVars>>

make_move(tree, held, g, prev) ==
    IF runner = "part1_runner" THEN RandomTreePlayer_make_move(tree, held, g, prev)
    ELSE IF runner = "part2_runner" THEN GreedyTreePlayer_make_move(tree, held, g, prev)
    ELSE ExploringPlayer_make_move(tree, held, g, prev, exploration_probability)

\* run_game: the tree player is the current player
TreePlayerMove ==
    /\ pc = "playing"
    /\ get_winner(game) = "None"
    /\ is_white_move(game) = tree_white
    /\ \E r \in make_move(game_tre, player_game_tree, game, previous_move) :
          /\ game_tre' = r.tree
          /\ player_game_tree' = r.game_tree
          /\ game' = copy_and_make_move(game, r.move)
          /\ move_sequence' = Append(move_sequence, r.move)
    /\ UNCHANGED <<inserted, last_insert, pc, runner, tree_white,
                   exploration_probability, n_inserts, n_games, genVars, callVars>>

\* run_game: the RandomPlayer is the current player
RandomPlayerMove ==
    /\ pc = "playing"
    /\ get_winner(game) = "None"
    /\ is_white_move(game) # tree_white
    /\ \E m \in RandomPlayer_make_move(game) :
          /\ game' = copy_and_make_move(game, m)
          /\ move_sequence' = Append(move_sequence, m)
    /\ UNCHANGED <<treeVars, pc, runner, tree_white, exploration_probability,
                   player_game_tree, n_inserts, n_games, genVars, callVars>>

ResetGame ==
    /\ game' = MinichessGame
    /\ move_sequence' = <<>>
    /\ runner' = "none"
    /\ tree_white' = TRUE
    /\ exploration_probability' = 0
    /\ player_game_tree' = NoTree

\* run_games of part1_runner and part2_runner: the game is over
FinishGame ==
    /\ pc = "playing"
    /\ runner \in {"part1_runner", "part2_runner"}
    /\ get_winner(game) # "None"
    /\ pc' = "idle"
    /\ ResetGame
    /\ UNCHANGED <<treeVars, n_inserts, n_games, genVars, callVars>>

\* part3.py:123-129: the game is over and is inserted into the tree
LearnFromGame ==
    /\ pc = "playing"
    /\ runner = "run_learning_algorithm"
    /\ get_winner(game) # "None"
    /\ LET win_probability == IF get_winner(game) = "White" THEN One ELSE Zero
       IN /\ game_tre' = insert_move_sequence(game_tre, move_sequence, win_probability)
          /\ inserted' = inserted \cup {move_sequence}
          /\ last_insert' = [moves |-> move_sequence, win_probability |-> win_probability,
                             before |-> <<game_tre>>, by |-> get_winner(game)]
    /\ pc' = "idle"
    /\ ResetGame
    /\ UNCHANGED <<n_inserts, n_games, genVars, callVars>>

\* generate_complete_game_tree(root_move, game_state, d) is called and returns
Generate ==
    /\ gen_tree = <<>>
    /\ gen_tree' = <<generate_complete_game_tree(gen_args.root_move, gen_args.game_state,
                                                 gen_args.d)>>
    /\ UNCHANGED <<treeVars, pc, gameVars, n_inserts, n_games, gen_args, callVars>>

\* The caller drops the tree and makes the next call.
NextCall(moves, d) ==
    /\ gen_tree # <<>>
    /\ gen_args' = GenArgs(moves, d)
    /\ gen_tree' = <<>>
    /\ UNCHANGED <<treeVars, pc, gameVars, n_inserts, n_games, callVars>>

(* A client of the tree: insert_move_sequence calls on one tree.           *)
Next ==
    \E moves \in LegalPaths, w \in Outcomes : Insert(moves, w)

Spec == Init /\ [][Next]_vars

(* The runners on one shared tree that run_learning_algorithm grows.       *)
NextPlay ==
    \/ StartGame("part1_runner", TRUE, 0)
    \/ \E white \in BOOLEAN : StartGame("part2_runner", white, 0)
    \/ \E p \in ExplorationProbabilities : StartGame("run_learning_algorithm", TRUE, p)
    \/ TreePlayerMove
    \/ RandomPlayerMove
    \/ FinishGame
    \/ LearnFromGame

SpecPlay == Init /\ [][NextPlay]_vars

(* Calls of generate_complete_game_tree on the positions of a game.        *)
NextGen ==
    \/ Generate
    \/ \E moves \in LegalPaths, d \in 0..MaxDepth : NextCall(moves, d)

SpecGen == Init /\ [][NextGen]_vars

----------------------------------------------------------------------------
(* One insert_move_sequence call, frame by frame.  A frame of rec_helper   *)
(* is the node it runs on and where it stands: at "start" (line 124), or   *)
(* at "update" (line 136 or 142, the recursive call below it being under   *)
(* way or over).  The last frame of rec.stack is the running one.          *)
(* rec.updates lists, in call order, the nodes whose                       *)
(* _update_white_win_probability call has recomputed the value.            *)

\* tree with subtree appended to the _subtrees of the node at `at`
RECURSIVE AppendAt(_, _, _)
AppendAt(tree, at, subtree) ==
    IF at = <<>> THEN [tree EXCEPT !.subtrees = Append(@, subtree)]
    ELSE [tree EXCEPT !.subtrees[Head(at)] = AppendAt(@, Tail(at), subtree)]

\* tree after the node at `at` has run _update_white_win_probability
RECURSIVE UpdateAt(_, _)
UpdateAt(tree, at) ==
    IF at = <<>> THEN update_white_win_probability(tree)
    ELSE [tree EXCEPT !.subtrees[Head(at)] = UpdateAt(@, Tail(at))]

Frame(at, line) == [at |-> at, line |-> line]

TopFrame == rec.stack[Len(rec.stack)]

Returned == SubSeq(rec.stack, 1, Len(rec.stack) - 1)

\* game_tree.py:116-118: the call starts rec_helper on the root
CallInsert(moves, win_probability) ==
    /\ rec.stack = <<>>
    /\ n_inserts < MaxCalls
    /\ rec' = [stack |-> <<Frame(<<>>, "start")>>, moves_copy |-> Reverse(moves),
               win_probability |-> win_probability, moves |-> moves,
               before |-> <<game_tre>>, updates |-> <<>>]
    /\ n_inserts' = n_inserts + 1
    /\ UNCHANGED <<treeVars, pc, gameVars, n_games, genVars, last_add>>

\* A rec_helper that recomputes the node before it recurses.
RecEnter_update_first ==
    /\ rec.stack # <<>>
    /\ TopFrame.line = "start"
    /\ IF rec.moves_copy = <<>>
       THEN /\ rec' = [rec EXCEPT !.stack = Returned]
            /\ UNCHANGED game_tre
       ELSE LET self == NodeAt(game_tre, TopFrame.at)
                next == rec.moves_copy[Len(rec.moves_copy)]
                popped == SubSeq(rec.moves_copy, 1, Len(rec.moves_copy) - 1)
                move_tree == find_subtree_by_move(self, next)
                new_subtree == GameTree(next, ~self.is_white_move, rec.win_probability)
                child == IF move_tree = 0 THEN Len(self.subtrees) + 1 ELSE move_tree
            IN /\ game_tre' = UpdateAt(IF move_tree = 0
                                       THEN AppendAt(game_tre, TopFrame.at, new_subtree)
                                       ELSE game_tre, TopFrame.at)
               /\ rec' = [rec EXCEPT
                            !.moves_copy = popped,
                            !.updates = Append(@, TopFrame.at),
                            !.stack = Returned \o <<Frame(Append(TopFrame.at, child), "start")>>]
    /\ UNCHANGED <<inserted, last_insert, pc, gameVars, n_inserts, n_games, genVars, last_add>>

\* game_tree.py:124-135 and 138-141: the running frame returns on an empty
\* list, or finds or creates the subtree of the next move, pops the move and
\* calls rec_helper on that subtree.
RecEnter ==
    /\ rec.stack # <<>>
    /\ TopFrame.line = "start"
    /\ IF rec.moves_copy = <<>>
       THEN /\ rec' = [rec EXCEPT !.stack = Returned]
            /\ UNCHANGED game_tre
       ELSE LET self == NodeAt(game_tre, TopFrame.at)
                next == rec.moves_copy[Len(rec.moves_copy)]
                popped == SubSeq(rec.moves_copy, 1, Len(rec.moves_copy) - 1)
                move_tree == find_subtree_by_move(self, next)
                new_subtree == GameTree(next, ~self.is_white_move, rec.win_probability)
                child == IF move_tree = 0 THEN Len(self.subtrees) + 1 ELSE move_tree
            IN /\ game_tre' = IF move_tree = 0
                              THEN AppendAt(game_tre, TopFrame.at, new_subtree)
                              ELSE game_tre
               /\ rec' = [rec EXCEPT
                            !.moves_copy = popped,
                            !.stack = Returned \o <<Frame(TopFrame.at, "update"),
                                                    Frame(Append(TopFrame.at, child), "start")>>]
    /\ UNCHANGED <<inserted, last_insert, pc, gameVars, n_inserts, n_games, genVars, last_add>>

\* game_tree.py:136-137 and 142-143: the recursive call is over; the running
\* frame recomputes its node and returns.
RecUpdate ==
    /\ rec.stack # <<>>
    /\ TopFrame.line = "update"
    /\ game_tre' = UpdateAt(game_tre, TopFrame.at)
    /\ rec' = [rec EXCEPT !.stack = Returned,
                          !.updates = IF NodeAt(game_tre, TopFrame.at).subtrees = <<>>
                                      THEN @ ELSE Append(@, TopFrame.at)]
    /\ UNCHANGED <<inserted, last_insert, pc, gameVars, n_inserts, n_games, genVars, last_add>>

(* insert_move_sequence calls on one tree, each run frame by frame.        *)
NextRec ==
    \/ \E moves \in LegalPaths, w \in Outcomes : CallInsert(moves, w)
    \/ RecEnter
    \/ RecUpdate

SpecRec == Init /\ [][NextRec]_vars

----------------------------------------------------------------------------
(* Properties of the tree                                                  *)

\* The references to all nodes of tree.
RECURSIVE Paths(_)
Paths(tree) ==
    {<<>>} \cup UNION {{<<i>> \o at : at \in Paths(tree.subtrees[i])} :
                         i \in 1..Len(tree.subtrees)}

\* The node reached by calling find_subtree_by_move step by step along moves
\* from the node at `at`; NoTree as soon as one call returns None.
RECURSIVE FindPath(_, _, _)
FindPath(tree, at, moves) ==
    IF moves = <<>> THEN Ref(at)
    ELSE LET i == find_subtree_by_move(NodeAt(tree, at), Head(moves))
         IN IF i = 0 THEN NoTree ELSE FindPath(tree, Append(at, i), Tail(moves))

Probs(node) == [i \in 1..Len(node.subtrees) |-> node.subtrees[i].white_win_probability]

\* Product of the denominators of ps[1..i]
RECURSIVE DenProduct(_, _)
DenProduct(ps, i) == IF i = 0 THEN 1 ELSE DenProduct(ps, i - 1) * ps[i][2]

\* Sum of ps[1..i], as a numerator over the denominator den
RECURSIVE NumSum(_, _, _)
NumSum(ps, i, den) ==
    IF i = 0 THEN 0 ELSE NumSum(ps, i - 1, den) + ps[i][1] * (den \div ps[i][2])

IsMaximumOf(v, ps) ==
    /\ \E i \in 1..Len(ps) : ps[i] = v
    /\ \A i \in 1..Len(ps) : ps[i][1] * v[2] <= v[1] * ps[i][2]

IsMeanOf(v, ps) ==
    LET den == DenProduct(ps, Len(ps))
    IN v[1] * den * Len(ps) = NumSum(ps, Len(ps), den) * v[2]

FollowsRule(node) ==
    node.subtrees # <<>> =>
        IF node.is_white_move THEN IsMaximumOf(node.white_win_probability, Probs(node))
        ELSE IsMeanOf(node.white_win_probability, Probs(node))

\* C1: after any sequence of insert_move_sequence calls on a tree that
\* started as a single root, every node with at least one child has as its
\* white_win_probability the maximum of its children's when is_white_move
\* is True and their arithmetic mean when it is False.
C1_MaxOrMeanOfChildren ==
    \A at \in Paths(game_tre) : FollowsRule(NodeAt(game_tre, at))

\* C1 witness: White's root has two children of different value and a
\* Black-to-move node has two children of different value, after a third
\* insertion went through existing nodes.
C1_Witness ==
    /\ n_inserts = 3
    /\ Len(game_tre.subtrees) = 2
    /\ game_tre.subtrees[1].white_win_probability # game_tre.subtrees[2].white_win_probability
    /\ \E i \in 1..2 :
          LET node == game_tre.subtrees[i]
          IN /\ ~node.is_white_move
             /\ Len(node.subtrees) = 2
             /\ node.subtrees[1].white_win_probability # node.subtrees[2].white_win_probability

SiblingsDistinct(node) ==
    \A i, j \in 1..Len(node.subtrees) :
        i # j => node.subtrees[i].move # node.subtrees[j].move

ChildCounts(tree) == [at \in Paths(tree) |-> Len(NodeAt(tree, at).subtrees)]

TreeBefore == last_insert.before[1]

\* C2: the children of every node are pairwise distinct by move label, and
\* an insert_move_sequence call whose whole path was already in the tree
\* leaves the number of children of every node unchanged.
C2_NoDuplicateSiblings ==
    /\ \A at \in Paths(game_tre) : SiblingsDistinct(NodeAt(game_tre, at))
    /\ (last_insert.by # "none" /\ FindPath(TreeBefore, <<>>, last_insert.moves).present)
          => ChildCounts(game_tre) = ChildCounts(TreeBefore)

\* C2 witness: a path of two moves or more was inserted a second time into
\* a tree that has a node with two children.
C2_Witness ==
    /\ last_insert.by # "none"
    /\ Len(last_insert.moves) >= 2
    /\ last_insert.moves \in inserted
    /\ FindPath(TreeBefore, <<>>, last_insert.moves).present
    /\ \E at \in Paths(game_tre) : Len(NodeAt(game_tre, at).subtrees) = 2

\* C3: every move path that was inserted at the root is found, at any later
\* point, by calling find_subtree_by_move step by step along it: no call
\* returns None.
C3_InsertedPathsFound ==
    \A moves \in inserted :
        \A k \in 0..Len(moves) : FindPath(game_tre, <<>>, SubSeq(moves, 1, k)).present

\* C3 witness: three different paths were inserted, the latest one is not
\* the longest, and a path of three moves is among the earlier ones.
C3_Witness ==
    /\ Cardinality(inserted) = 3
    /\ Len(last_insert.moves) < 3
    /\ \E moves \in inserted : Len(moves) = 3 /\ FindPath(TreeBefore, <<>>, moves).present

\* The latest insertion ran along a path ending at a node that was a leaf of
\* the tree, with an outcome other than the leaf's value.
ReinsertedAtLeaf ==
    /\ last_insert.by # "none"
    /\ last_insert.moves # <<>>
    /\ LET leaf == FindPath(TreeBefore, <<>>, last_insert.moves)
       IN /\ leaf.present
          /\ NodeAt(TreeBefore, leaf.at).subtrees = <<>>
          /\ NodeAt(TreeBefore, leaf.at).white_win_probability # last_insert.win_probability

LeafAfter == NodeAt(game_tre, FindPath(game_tre, <<>>, last_insert.moves).at)
LeafBefore == NodeAt(TreeBefore, FindPath(TreeBefore, <<>>, last_insert.moves).at)

\* C4 as stated: when a path whose last node is already a leaf of the tree is
\* inserted again with a different outcome probability, the leaf's
\* white_win_probability equals the outcome of that most recent insertion.
C4_LeafOverwritten ==
    ReinsertedAtLeaf => LeafAfter.white_win_probability = last_insert.win_probability

\* C4 amended: when a path whose last node is already a leaf of the tree is
\* inserted again with a different outcome probability, the leaf is not
\* overwritten: it is still a leaf and its white_win_probability is the
\* value it had before the call.
C4_LeafKeepsValue ==
    ReinsertedAtLeaf =>
        /\ LeafAfter.subtrees = <<>>
        /\ LeafAfter.white_win_probability = LeafBefore.white_win_probability

\* C4 witness: such a re-insertion at a leaf two moves or more below the root.
C4_Witness ==
    ReinsertedAtLeaf /\ Len(last_insert.moves) >= 2

----------------------------------------------------------------------------
(* Properties of the tree players                                          *)

Last(seq) == seq[Len(seq)]
Front(seq) == SubSeq(seq, 1, Len(seq) - 1)

\* The tree player is the current player of run_game.
TreePlayersTurn ==
    /\ pc = "playing"
    /\ get_winner(game) = "None"
    /\ is_white_move(game) = tree_white

\* This step is a make_move call of the tree player.
TreePlayerStep == TreePlayersTurn /\ move_sequence' # move_sequence

\* The player's _game_tree after the descent on the opponent's move.
HeldAfterDescent == Descend(game_tre, player_game_tree, previous_move)

\* ps[k] is the greatest value and the first of that value.
FirstMaximum(k, ps) ==
    /\ \A i \in 1..Len(ps) : ps[i][1] * ps[k][2] <= ps[k][1] * ps[i][2]
    /\ \A i \in 1..(k - 1) : ps[i] # ps[k]

\* ps[k] is the least value and the first of that value.
FirstMinimum(k, ps) ==
    /\ \A i \in 1..Len(ps) : ps[k][1] * ps[i][2] <= ps[i][1] * ps[k][2]
    /\ \A i \in 1..(k - 1) : ps[i] # ps[k]

GreedyRule(k, ps, white) ==
    /\ k \in 1..Len(ps)
    /\ (white /\ \E i \in 1..Len(ps) : ps[i][1] > 0) => FirstMaximum(k, ps)
    /\ (~white /\ \E i \in 1..Len(ps) : ps[i][1] < ps[i][2]) => FirstMinimum(k, ps)

\* C5: a GreedyTreePlayer.make_move call whose held position, after the
\* descent on the opponent's move, has children moves to a child of it: on
\* White's turn the first child of maximum white_win_probability if some
\* child's value is above 0, on Black's turn the first child of minimum
\* value if some child's value is below 1.0, and some child otherwise; the
\* move returned is that child's label and the child is the new held position.
C5_GreedyChoice ==
    [][(TreePlayerStep /\ runner = "part2_runner"
            /\ ~OffTree(game_tre, HeldAfterDescent)) =>
        LET held == HeldAfterDescent
            node == NodeAt(game_tre, held.at)
        IN /\ player_game_tree'.present
           /\ Len(player_game_tree'.at) = Len(held.at) + 1
           /\ Front(player_game_tree'.at) = held.at
           /\ GreedyRule(Last(player_game_tree'.at), Probs(node), is_white_move(game))
           /\ Last(move_sequence') = node.subtrees[Last(player_game_tree'.at)].move
           /\ move_sequence' = Append(move_sequence, Last(move_sequence'))]_vars

\* C5 witness: the greedy player, as White at the root, has moved to the
\* second of two children, whose value is the greater one.
C5_Witness ==
    /\ pc = "playing"
    /\ runner = "part2_runner"
    /\ tree_white
    /\ Len(move_sequence) = 1
    /\ player_game_tree = Ref(<<2>>)
    /\ FLess(game_tre.subtrees[1].white_win_probability,
             game_tre.subtrees[2].white_win_probability)

\* C6: in every make_move call of a RandomTreePlayer, GreedyTreePlayer or
\* ExploringPlayer whose held position, after the descent on the opponent's
\* move, is absent or has no children, the move returned is a member of
\* game.get_valid_moves() and the held position becomes absent; and a held
\* position that is absent is absent after every later make_move call of
\* that player.
C6_FallsOffTheTree ==
    [][/\ (TreePlayerStep /\ OffTree(game_tre, HeldAfterDescent)) =>
            /\ Last(move_sequence') \in Range(get_valid_moves(game))
            /\ ~player_game_tree'.present
       /\ (pc = "playing" /\ pc' = "playing" /\ ~player_game_tree.present) =>
            ~player_game_tree'.present]_vars

\* C6 witness: a tree player that found the root without children on its
\* first move has made its second move, and its held position is absent.
C6_Witness ==
    /\ pc = "playing"
    /\ tree_white
    /\ Len(move_sequence) = 3
    /\ game_tre.subtrees = <<>>
    /\ ~player_game_tree.present

\* What a caller of make_move sees: the move and the new held position.
Seen(results) == {<<r.move, r.game_tree>> : r \in results}

\* tree with every white_win_probability replaced by v
RECURSIVE WithAllProbabilities(_, _)
WithAllProbabilities(tree, v) ==
    [tree EXCEPT !.white_win_probability = v,
                 !.subtrees = [i \in 1..Len(tree.subtrees) |->
                                  WithAllProbabilities(tree.subtrees[i], v)]]

\* C7: on the same tree, held position, game state and opponent move, an
\* ExploringPlayer with exploration probability 0.0 has exactly the possible
\* (move, new held position) results of a GreedyTreePlayer; and one with
\* exploration probability 1.0 never takes the greedy branch: its possible
\* results are those on the tree with any other white_win_probability values.
C7_ExploringExtremes ==
    TreePlayersTurn =>
        /\ Seen(ExploringPlayer_make_move(game_tre, player_game_tree, game,
                                          previous_move, 0))
             = Seen(GreedyTreePlayer_make_move(game_tre, player_game_tree, game,
                                               previous_move))
        /\ \A r \in ExploringPlayer_make_move(game_tre, player_game_tree, game,
                                              previous_move, ProbScale) :
              r.branch \in {"random", "explore"}
        /\ \A v \in Outcomes :
              Seen(ExploringPlayer_make_move(WithAllProbabilities(game_tre, v),
                                             player_game_tree, game, previous_move,
                                             ProbScale))
                = Seen(ExploringPlayer_make_move(game_tre, player_game_tree, game,
                                                 previous_move, ProbScale))

\* C7 witness: a player on a node with two children of different value is to
\* move, the greedy choice is a single child, and exploring can leave it.
C7_Witness ==
    /\ TreePlayersTurn
    /\ ~OffTree(game_tre, HeldAfterDescent)
    /\ LET node == NodeAt(game_tre, HeldAfterDescent.at)
       IN /\ Len(node.subtrees) = 2
          /\ node.subtrees[1].white_win_probability # node.subtrees[2].white_win_probability
    /\ Cardinality(Seen(GreedyTreePlayer_make_move(game_tre, player_game_tree, game,
                                                   previous_move))) = 1
    /\ Seen(ExploringPlayer_make_move(game_tre, player_game_tree, game, previous_move,
                                      ProbScale))
         # Seen(ExploringPlayer_make_move(game_tre, player_game_tree, game,
                                          previous_move, 0))

----------------------------------------------------------------------------
(* Properties of generate_complete_game_tree                               *)

\* The moves on the way from the root of tree to the node at `at`.
RECURSIVE MovesTo(_, _)
MovesTo(tree, at) ==
    IF at = <<>> THEN <<>>
    ELSE <<tree.subtrees[Head(at)].move>> \o MovesTo(tree.subtrees[Head(at)], Tail(at))

\* C8: the tree generate_complete_game_tree(root_move, game_state, d)
\* returns has no node more than d edges below its root, each of its leaves
\* is d edges below the root or stands for a game state that has a winner or
\* is a draw, and for d = 0 it is a single node without children.
C8_DepthBound ==
    gen_tree # <<>> =>
        LET tree == gen_tree[1]
        IN /\ \A at \in Paths(tree) :
                 /\ Len(at) <= gen_args.d
                 /\ NodeAt(tree, at).subtrees = <<>> =>
                       \/ Len(at) = gen_args.d
                       \/ get_winner(Replay(gen_args.game_state, MovesTo(tree, at))) # "None"
           /\ gen_args.d = 0 => tree.subtrees = <<>>
           /\ tree.move = gen_args.root_move

\* C8 witness: a tree generated from the start with d = 4 that has a leaf
\* above depth d, a leaf at depth d, and a drawn state that was expanded.
C8_Witness ==
    /\ gen_tree # <<>>
    /\ gen_args.d = 4
    /\ gen_args.game_state = MinichessGame
    /\ \E at \in Paths(gen_tree[1]) :
          Len(at) < 4 /\ NodeAt(gen_tree[1], at).subtrees = <<>>
    /\ \E at \in Paths(gen_tree[1]) :
          Len(at) = 4 /\ NodeAt(gen_tree[1], at).subtrees = <<>>
    /\ \E at \in Paths(gen_tree[1]) :
          /\ NodeAt(gen_tree[1], at).subtrees # <<>>
          /\ get_winner(Replay(MinichessGame, MovesTo(gen_tree[1], at))) = "Draw"

----------------------------------------------------------------------------
(* Properties of the learning loop                                         *)

\* Every node of old is a node of new, in the same place, with the same
\* move and is_white_move.
Grows(old, new) ==
    \A at \in Paths(old) :
        /\ at \in Paths(new)
        /\ NodeAt(new, at).move = NodeAt(old, at).move
        /\ NodeAt(new, at).is_white_move = NodeAt(old, at).is_white_move

\* This step is the insertion run_learning_algorithm makes after a game.
LearnStep ==
    /\ pc = "playing"
    /\ pc' = "idle"
    /\ runner = "run_learning_algorithm"

\* C9: over the games of run_learning_algorithm the one shared tree only
\* grows: every node stays where it is with its move and is_white_move; and
\* after a game its move sequence is a path from the root, whose last node,
\* when the game created it, holds 1.0 if White won and 0.0 otherwise.
C9_LearningGrowsTheTree ==
    [][/\ Grows(game_tre, game_tre')
       /\ LearnStep =>
            LET after == FindPath(game_tre', <<>>, move_sequence)
            IN /\ after.present
               /\ ~FindPath(game_tre, <<>>, move_sequence).present =>
                     NodeAt(game_tre', after.at).white_win_probability =
                        IF get_winner(game) = "White" THEN One ELSE Zero]_vars

\* C9 witness: the second game of the loop was won by White and its insertion
\* added nodes to a tree that already held the first game.
C9_Witness ==
    /\ pc = "idle"
    /\ n_games = 2
    /\ last_insert.by = "White"
    /\ Cardinality(inserted) = 2
    /\ Cardinality(Paths(game_tre)) > Cardinality(Paths(TreeBefore))
    /\ Cardinality(Paths(TreeBefore)) > 1

\* C10: no make_move call of a RandomTreePlayer, GreedyTreePlayer or
\* ExploringPlayer changes the shared tree, and the tree changes only in the
\* insertion made after a game of the learning loop has ended.
C10_MakeMoveLeavesTree ==
    [][/\ TreePlayerStep => game_tre' = game_tre
       /\ TreePlayersTurn =>
            /\ \A r \in RandomTreePlayer_make_move(game_tre, player_game_tree, game,
                                                   previous_move) : r.tree = game_tre
            /\ \A r \in GreedyTreePlayer_make_move(game_tre, player_game_tree, game,
                                                   previous_move) : r.tree = game_tre
            /\ \A p \in ExplorationProbabilities :
                  \A r \in ExploringPlayer_make_move(game_tre, player_game_tree, game,
                                                     previous_move, p) : r.tree = game_tre
       /\ game_tre' # game_tre => (LearnStep /\ get_winner(game) # "None")]_vars

\* C10 witness: in the second game of the loop the ExploringPlayer has made
\* two moves on a tree that holds the first game.
C10_Witness ==
    /\ pc = "playing"
    /\ runner = "run_learning_algorithm"
    /\ n_games = 2
    /\ Len(move_sequence) = 3
    /\ game_tre.subtrees # <<>>
    /\ player_game_tree.present
    /\ game_tre = insert_move_sequence(TreeBefore, last_insert.moves,
                                       last_insert.win_probability)

----------------------------------------------------------------------------
(* Properties of one insert_move_sequence call                             *)

CallBefore == rec.before[1]

\* The call made frame by frame has returned.
CallOver == rec.before # <<>> /\ rec.stack = <<>>

\* The node the first k moves of the call's path lead to.
PathNode(k) == FindPath(game_tre, <<>>, SubSeq(rec.moves, 1, k)).at

\* C11: in one insert_move_sequence call with a non-empty path of n moves
\* the node the call was made on and every path node but the last is
\* recomputed exactly once, deepest first: a node is recomputed only when
\* every path node below it has been; no node off the path is recomputed or
\* changes its value; and a call with an empty path changes nothing.
C11_RecomputedOncePostOrder ==
    LET n == Len(rec.moves)
        log == rec.updates
    IN /\ \A i \in 1..Len(log) : log[i] = PathNode(n - i) /\ Len(log[i]) = n - i
       /\ \A j \in 1..Len(rec.stack) :
             rec.stack[j].line = "update" =>
                /\ \A i \in 1..Len(log) : Len(log[i]) > Len(rec.stack[j].at)
                /\ j = Len(rec.stack) => Len(log) = n - 1 - Len(rec.stack[j].at)
       /\ CallOver =>
             /\ Len(log) = n
             /\ game_tre = insert_move_sequence(CallBefore, rec.moves, rec.win_probability)
             /\ \A at \in Paths(CallBefore) :
                   at \notin Range(log) =>
                      NodeAt(game_tre, at).white_win_probability
                         = NodeAt(CallBefore, at).white_win_probability
             /\ n = 0 => game_tre = CallBefore

\* C11 witness: a call with three moves has returned; its first move was in
\* the tree, its last was not, the tree had a node off the path, and the
\* root's value was changed by its recomputation.
C11_Witness ==
    /\ CallOver
    /\ Len(rec.moves) = 3
    /\ rec.updates = <<PathNode(2), PathNode(1), <<>>>>
    /\ FindPath(CallBefore, <<>>, SubSeq(rec.moves, 1, 1)).present
    /\ ~FindPath(CallBefore, <<>>, rec.moves).present
    /\ \E at \in Paths(CallBefore) : at # <<>> /\ at \notin {PathNode(1), PathNode(2)}
    /\ game_tre.white_win_probability # CallBefore.white_win_probability

----------------------------------------------------------------------------
(* A client building a tree with add_subtree, as build_sample_game_tree    *)
(* does (part0.py:4-22): it creates a leaf for a move and adds it to a     *)
(* node it holds.                                                          *)

\* tree after the node at `at` has run add_subtree(subtree)
RECURSIVE AddAt(_, _, _)
AddAt(tree, at, subtree) ==
    IF at = <<>> THEN add_subtree(tree, subtree)
    ELSE [tree EXCEPT !.subtrees[Head(at)] = AddAt(@, Tail(at), subtree)]

\* node.add_subtree(GameTree(move, not node.is_white_move, win_probability))
\* on the node at `at`; n_inserts counts the client's calls.
AddSubtree(at, move, win_probability) ==
    LET self == NodeAt(game_tre, at)
        subtree == GameTree(move, ~self.is_white_move, win_probability)
    IN /\ n_inserts < MaxAdds
       /\ game_tre' = AddAt(game_tre, at, subtree)
       /\ last_add' = [at |-> at, subtree |-> <<subtree>>, before |-> <<game_tre>>]
       /\ n_inserts' = n_inserts + 1
       /\ UNCHANGED <<inserted, last_insert, pc, gameVars, n_games, genVars, rec>>

NextAdd ==
    \E at \in Paths(game_tre), move \in MoveLabels, w \in Outcomes :
        AddSubtree(at, move, w)

SpecAdd == Init /\ [][NextAdd]_vars

----------------------------------------------------------------------------
(* Properties of add_subtree                                               *)

AddMade == last_add.before # <<>>

Added == last_add.subtree[1]

ParentBefore == NodeAt(last_add.before[1], last_add.at)

ParentAfter == NodeAt(game_tre, last_add.at)

\* The latest add_subtree call added a move one of the subtrees already had.
AddedDuplicate == AddMade /\ find_subtree_by_move(ParentBefore, Added.move) # 0

\* The number of subtrees of node with this move
Count(node, move) ==
    Cardinality({i \in 1..Len(node.subtrees) : node.subtrees[i].move = move})

\* C12 as stated: add_subtree does not tolerate a node whose move one of the
\* subtrees already has, so no node of the tree ever has two subtrees with
\* the same move.
C12_NoTwoSubtreesOfOneMove ==
    \A at \in Paths(game_tre) :
        \A move \in MoveLabels : Count(NodeAt(game_tre, at), move) <= 1

\* C12: add_subtree returns normally whatever the move of the added node:
\* the node is appended as the last subtree, the subtrees before it are
\* kept, the value is recomputed over all subtrees, and nothing else in the
\* tree changes.  When the move was already among the subtrees the node
\* ends up with one more subtree of that move, and find_subtree_by_move
\* still returns the earlier one.
C12_DuplicateAppended ==
    AddMade =>
        /\ ParentAfter.subtrees = Append(ParentBefore.subtrees, Added)
        /\ ParentAfter.white_win_probability
              = IF ParentAfter.is_white_move
                THEN MaxProb(ParentAfter.subtrees, Len(ParentAfter.subtrees))
                ELSE MeanProb(ParentAfter.subtrees)
        /\ \A at \in Paths(last_add.before[1]) :
              at # last_add.at =>
                 /\ NodeAt(game_tre, at).move = NodeAt(last_add.before[1], at).move
                 /\ NodeAt(game_tre, at).white_win_probability
                      = NodeAt(last_add.before[1], at).white_win_probability
        /\ Cardinality(Paths(game_tre)) = Cardinality(Paths(last_add.before[1])) + 1
        /\ AddedDuplicate =>
              /\ Count(ParentAfter, Added.move) = Count(ParentBefore, Added.move) + 1
              /\ Count(ParentAfter, Added.move) >= 2
              /\ find_subtree_by_move(ParentAfter, Added.move)
                    = find_subtree_by_move(ParentBefore, Added.move)
              /\ find_subtree_by_move(ParentAfter, Added.move) < Len(ParentAfter.subtrees)

\* C12 witness: a node below the root was given a second subtree of a move
\* it had, with another value than the first, and its value changed.
C12_Witness ==
    /\ AddedDuplicate
    /\ last_add.at # <<>>
    /\ Count(ParentAfter, Added.move) = 2
    /\ ParentAfter.subtrees[find_subtree_by_move(ParentAfter, Added.move)].white_win_probability
          # Added.white_win_probability
    /\ ParentAfter.white_win_probability # ParentBefore.white_win_probability

====
